---------------------------- MODULE Spec2Model ----------------------------
(***************************************************************************)
(* RecommendationEngine (app/services/recommendation_service.py): the      *)
(* in-memory similarity engine, its rebuild under a lock, and the          *)
(* retrieval calls that read the snapshot fields without a lock.           *)
(*                                                                         *)
(* Texts are sequences of tokens (the words of a string, split on white-   *)
(* space); a term of the vocabulary is a sequence of one or two tokens.    *)
(* Similarity scores are fixed-point integers, ScoreScale standing for 1.0.*)
(***************************************************************************)
EXTENDS Integers, Sequences, FiniteSets, TLC

(***************************************************************************)
(* Bounds of the model.                                                    *)
(***************************************************************************)
NThreads == 2
MaxTime == 2
MaxBuilds == 2
MaxTimeouts == 1
\* the longest text given to preprocess_text, in pieces
MaxPieces == 3

(***************************************************************************)
(* Program constants.                                                      *)
(***************************************************************************)
cache_ttl == 1
MinDf == 2
MaxDfPercent == 85
PoolThreshold == 10
\* round(score, 4): four decimals are kept in the output
Decimals == 10000
\* scores carry one more decimal digit than the output keeps
ScoreScale == 10 * Decimals
\* 0.01, the default min_similarity and the threshold of search_innovations
OnePercent == ScoreScale \div 100

Threads == 1..NThreads

(***************************************************************************)
(* Generic helpers on sequences.                                           *)
(***************************************************************************)
Range(s) == {s[i] : i \in DOMAIN s}

Min2(a, b) == IF a < b THEN a ELSE b

\* the sequence s as an array: its elements are computed once
Array(s) == SelectSeq(s, LAMBDA x : TRUE)

RECURSIVE SelectIdx(_, _, _)
\* the indices i of s, ascending, from i on, whose element satisfies Keep
SelectIdx(s, keep, i) ==
    IF i > Len(s) THEN <<>>
    ELSE IF keep[i] THEN <<i>> \o SelectIdx(s, keep, i + 1)
    ELSE SelectIdx(s, keep, i + 1)

RECURSIVE SubsetsOfSize(_, _)
\* the subsets of 1..m with n elements
SubsetsOfSize(m, n) ==
    IF n = 0 THEN {{}}
    ELSE IF m < n THEN {}
    ELSE SubsetsOfSize(m - 1, n) \cup {L \cup {m} : L \in SubsetsOfSize(m - 1, n - 1)}

RECURSIVE Isqrt(_, _, _)
\* floor of the square root of x, by bisection on lo..hi
Isqrt(x, lo, hi) ==
    IF lo >= hi THEN lo
    ELSE LET mid == (lo + hi + 1) \div 2
         IN  IF mid <= x \div mid THEN Isqrt(x, mid, hi) ELSE Isqrt(x, lo, mid - 1)

(***************************************************************************)
(* Text normalisation on tokens (app/utils/text_processing.py).            *)
(***************************************************************************)
\* members of INDONESIAN_STOPWORDS that occur in the modelled catalogs
StopWords == {"yang", "dan", "di", "untuk", "se", "guna"}

\* the Sastrawi stemmer on the words of the modelled catalogs and texts: the
\* root of a derived word, the word itself otherwise
Stem(tok) ==
    CASE tok = "kesehatan" -> "sehat"
      [] tok = "pertanian" -> "tani"
      [] tok = "penggunaan" -> "guna"
      [] OTHER -> tok

\* text.strip(): the blank strings of the model strip to ""
Strip(s) == IF s \in {"", " ", "  "} THEN "" ELSE s

\* preprocess_text on an already cleaned, lower-cased token sequence
preprocess_text(tokens) ==
    LET long    == SelectSeq(tokens, LAMBDA w : Len(w) > 1)
        kept    == SelectSeq(long, LAMBDA w : w \notin StopWords)
        stemmed == [i \in DOMAIN kept |-> Stem(kept[i])]
    IN  SelectSeq(stemmed, LAMBDA w : Len(w) > 1)

batch_preprocess_text(texts) == Array([i \in DOMAIN texts |-> preprocess_text(texts[i])])

(***************************************************************************)
(* preprocess_text on the characters of a text (lines 809-875).  A text is *)
(* a sequence of one-character strings.                                    *)
(***************************************************************************)
LowerLetters ==
    <<"a", "b", "c", "d", "e", "f", "g", "h", "i", "j", "k", "l", "m",
      "n", "o", "p", "q", "r", "s", "t", "u", "v", "w", "x", "y", "z">>

UpperLetters ==
    <<"A", "B", "C", "D", "E", "F", "G", "H", "I", "J", "K", "L", "M",
      "N", "O", "P", "Q", "R", "S", "T", "U", "V", "W", "X", "Y", "Z">>

\* \d
Digits == {"0", "1", "2", "3", "4", "5", "6", "7", "8", "9"}

\* \s
Space == " "

Backslash == "\\"

\* string.punctuation and the like: what is neither \w nor \s, and the underscore
IsPunctuation(c) == c \notin Range(LowerLetters) \cup Range(UpperLetters) \cup Digits \cup {Space}

RECURSIVE Word(_)
\* the string of a sequence of characters
Word(chars) == IF chars = <<>> THEN "" ELSE chars[1] \o Word(Tail(chars))

RECURSIVE LStrip(_)
LStrip(text) == IF text # <<>> /\ text[1] = Space THEN LStrip(Tail(text)) ELSE text

RECURSIVE RStrip(_)
RStrip(text) ==
    IF text # <<>> /\ text[Len(text)] = Space
    THEN RStrip(SubSeq(text, 1, Len(text) - 1)) ELSE text

\* text.strip()
StripChars(text) == RStrip(LStrip(text))

\* text.lower()
Lower(text) ==
    Array([i \in DOMAIN text |->
              IF text[i] \in Range(UpperLetters)
              THEN LowerLetters[CHOOSE n \in DOMAIN UpperLetters : UpperLetters[n] = text[i]]
              ELSE text[i]])

RECURSIVE SubEscapedTabs(_)
\* line 834: re.sub(r"\\[tn]", " ", text)
SubEscapedTabs(text) ==
    IF text = <<>> THEN <<>>
    ELSE IF Len(text) >= 2 /\ text[1] = Backslash /\ text[2] \in {"t", "n"}
    THEN <<Space>> \o SubEscapedTabs(SubSeq(text, 3, Len(text)))
    ELSE <<text[1]>> \o SubEscapedTabs(Tail(text))

RECURSIVE SubEscapedUnicode(_)
\* line 835: re.sub(r"\\u[0-9a-fA-F]{4}", " ", text)
SubEscapedUnicode(text) ==
    IF text = <<>> THEN <<>>
    ELSE IF /\ Len(text) >= 6 /\ text[1] = Backslash /\ text[2] = "u"
            /\ \A i \in 3..6 : text[i] \in Digits \cup {"a", "b", "c", "d", "e", "f"}
    THEN <<Space>> \o SubEscapedUnicode(SubSeq(text, 7, Len(text)))
    ELSE <<text[1]>> \o SubEscapedUnicode(Tail(text))

\* lines 836-840: re.sub(r"\\+", "", text), then re.sub(r"\d+", "", text)
SubDigits(text) == SelectSeq(text, LAMBDA c : c # Backslash /\ c \notin Digits)

\* line 843: re.sub(r"[^\w\s]", "", text); \w of a lower-cased text is a
\* letter, a digit or the underscore
SubPunctuation(text) ==
    SelectSeq(text, LAMBDA c : c \in Range(LowerLetters) \cup Digits \cup {"_", Space})

RECURSIVE CollapseSpaces(_)
\* re.sub(r"\s+", " ", text)
CollapseSpaces(text) ==
    IF Len(text) < 2 THEN text
    ELSE IF text[1] = Space /\ text[2] = Space THEN CollapseSpaces(Tail(text))
    ELSE <<text[1]>> \o CollapseSpaces(Tail(text))

RECURSIVE SplitWords(_, _)
\* text.split(): the words of text, token being the word read so far
SplitWords(text, token) ==
    IF text = <<>> THEN (IF token = <<>> THEN <<>> ELSE <<token>>)
    ELSE IF text[1] = Space
    THEN (IF token = <<>> THEN <<>> ELSE <<token>>) \o SplitWords(Tail(text), <<>>)
    ELSE SplitWords(Tail(text), Append(token, text[1]))

RECURSIVE JoinWords(_)
\* " ".join(tokens)
JoinWords(tokens) ==
    IF tokens = <<>> THEN <<>>
    ELSE IF Len(tokens) = 1 THEN tokens[1]
    ELSE tokens[1] \o <<Space>> \o JoinWords(Tail(tokens))

\* lines 825-846: the cleaned text
CleanText(text) ==
    StripChars(CollapseSpaces(SubPunctuation(SubDigits(
        SubEscapedUnicode(SubEscapedTabs(Lower(StripChars(text))))))))

\* the characters of the roots Stem produces
Spelling ==
    [guna |-> <<"g", "u", "n", "a">>,
     sehat |-> <<"s", "e", "h", "a", "t">>,
     tani |-> <<"t", "a", "n", "i">>]

\* the stemmer on one word
StemWord(word) == IF Stem(Word(word)) = Word(word) THEN word ELSE Spelling[Stem(Word(word))]

\* stemmer.stem(token) of Sastrawi: the token is normalised (what is not a
\* letter, a digit, a blank or a hyphen becomes a blank), its words are
\* stemmed and joined again
SastrawiStem(token) ==
    JoinWords(Array([i \in DOMAIN SplitWords(Array([n \in DOMAIN token |->
                                        IF token[n] = "_" THEN Space ELSE token[n]]), <<>>) |->
                        StemWord(SplitWords(Array([n \in DOMAIN token |->
                                        IF token[n] = "_" THEN Space ELSE token[n]]), <<>>)[i])]))

\* lines 863-870: every token stemmed, or, when stemmer.stem raises on one of
\* them (raises: the words on which it does), the
\* tokens as they are
StemTokens(tokens, raises) ==
    IF \E i \in DOMAIN tokens : Word(tokens[i]) \in raises THEN tokens
    ELSE Array([i \in DOMAIN tokens |-> SastrawiStem(tokens[i])])

\* line 873
DropShort(tokens) == SelectSeq(tokens, LAMBDA token : Len(token) > 1)

\* lines 849-858: the tokens longer than one character that are not stopwords
KeptTokens(cleaned) ==
    SelectSeq(DropShort(SplitWords(cleaned, <<>>)), LAMBDA token : Word(token) \notin StopWords)

\* preprocess_text(text) on the characters of text; raises: the words on
\* which the stemmer raises
preprocess_text_chars(text, raises) ==
    JoinWords(DropShort(StemTokens(KeptTokens(CleanText(text)), raises)))

(***************************************************************************)
(* Cleaning of the fetched documents.                                      *)
(***************************************************************************)
\* a cleaning that keeps every fetched document
validate_keeping_all(data) == data

\* dropna(subset=["id"]) and df[df["id"].str.strip() != ""]
validate_and_clean_data(data) == SelectSeq(data, LAMBDA d : Strip(d.id) # "")

\* df["combined_features"] = df["deskripsi"] + " " + df["kategori"]
create_combined_features(d) == d.deskripsi \o d.kategori

(***************************************************************************)
(* TfidfVectorizer(ngram_range=(1, 2), min_df=2, max_df=0.85) and          *)
(* cosine_similarity, as used by _build_tfidf_matrix and                   *)
(* _calculate_similarity_matrix.                                           *)
(***************************************************************************)
\* the unigrams and bigrams of a text, in order
Ngrams(text) ==
    [i \in 1..Len(text) |-> <<text[i]>>]
        \o [i \in 1..(Len(text) - 1) |-> <<text[i], text[i + 1]>>]

TermSet(text) == Range(Ngrams(text))

\* number of texts a term occurs in
DocFreq(term, texts) == Cardinality({i \in DOMAIN texts : term \in TermSet(texts[i])})

\* number of occurrences of a term in a text
TermFreq(term, text) ==
    LET g == Ngrams(text) IN Cardinality({i \in DOMAIN g : g[i] = term})

\* the terms kept by the document-frequency bounds
Vocabulary(texts) ==
    {term \in UNION {TermSet(texts[i]) : i \in DOMAIN texts} :
        /\ DocFreq(term, texts) >= MinDf
        /\ DocFreq(term, texts) * 100 <= MaxDfPercent * Len(texts)}

\* the tokens of the catalogs and queries, in alphabetical order
TokenOrder ==
    << "aplikasi", "digital", "mesin", "mobile", "otomatis", "robot", "sehat", "tani" >>

TokenRank(tok) == CHOOSE i \in DOMAIN TokenOrder : TokenOrder[i] = tok

\* the order of the feature names: term a sorts before term b
TermBefore(a, b) ==
    \/ TokenRank(a[1]) < TokenRank(b[1])
    \/ /\ a[1] = b[1]
       /\ \/ Len(a) < Len(b)
          \/ Len(a) = 2 /\ Len(b) = 2 /\ TokenRank(a[2]) < TokenRank(b[2])

RECURSIVE FeatureNames(_)
\* the vocabulary as the sorted sequence of the matrix's columns
FeatureNames(vocabulary) ==
    IF vocabulary = {} THEN <<>>
    ELSE LET first == CHOOSE a \in vocabulary :
                          \A b \in vocabulary \ {a} : TermBefore(a, b)
         IN  <<first>> \o FeatureNames(vocabulary \ {first})

\* 100 * ln(k) for k in 1..14, rounded
Ln100 == <<0, 69, 110, 139, 161, 179, 195, 208, 220, 230, 240, 248, 256, 264>>

\* the weighted vector of a text in a fitted vector space
Transform(vec, text) ==
    Array([c \in DOMAIN vec.features |-> TermFreq(vec.features[c], text) * vec.idf[c]])

RECURSIVE DotUpTo(_, _, _)
DotUpTo(u, v, n) == IF n = 0 THEN 0 ELSE u[n] * v[n] + DotUpTo(u, v, n - 1)

Dot(u, v) == DotUpTo(u, v, Len(u))

\* cosine of two weighted vectors; a zero vector has similarity 0 to everything
Cosine(u, v) ==
    LET nu == Dot(u, u)
        nv == Dot(v, v)
        r == Isqrt(nu * nv, 0, nu * nv)
    IN  IF nu = 0 \/ nv = 0 THEN 0
        ELSE (Dot(u, v) * ScoreScale) \div (IF r * r = nu * nv THEN r ELSE r + 1)

\* the None of a failed step
None == [ok |-> FALSE]

\* the fitted vectorizer: the feature names and their idf weights, the smoothed
\* inverse document frequency ln((1 + n) / (1 + df)) + 1, times 10
fit_features(features, texts) ==
    [ok |-> TRUE,
     features |-> features,
     idf |-> Array([c \in DOMAIN features |->
                       (Ln100[Len(texts) + 1] - Ln100[DocFreq(features[c], texts) + 1] + 100) \div 10])]

\* the pruning has left vocabulary: no term left raises
fit_vocabulary(vocabulary, texts) ==
    IF MaxDfPercent * Len(texts) < MinDf * 100 \/ vocabulary = {} THEN None
    ELSE fit_features(FeatureNames(vocabulary), texts)

\* TfidfVectorizer.fit: fails (ValueError) when max_df * n < min_df or when no
\* term survives the pruning
FitTfidf(texts) == fit_vocabulary(Vocabulary(texts), texts)

\* lines 175-180: the vectorizer vec and the matrix of the texts' vectors
fit_transform(vec, texts) ==
    IF ~vec.ok THEN None
    ELSE [ok |-> TRUE,
          tfidf |-> vec,
          matrix |-> Array([i \in DOMAIN texts |-> Transform(vec, texts[i])])]

\* a vectorizer without document-frequency bounds
build_tfidf_unpruned(texts) ==
    IF Len(SelectSeq(texts, LAMBDA x : x # <<>>)) < 2 THEN None
    ELSE fit_transform(fit_features(FeatureNames(UNION {TermSet(texts[i]) : i \in DOMAIN texts}),
                                    texts),
                       texts)

\* _build_tfidf_matrix
build_tfidf_matrix(texts) ==
    IF Len(SelectSeq(texts, LAMBDA x : x # <<>>)) < 2 THEN None
    ELSE fit_transform(FitTfidf(texts), texts)

\* _calculate_similarity_matrix
calculate_similarity_matrix(matrix) ==
    Array([i \in DOMAIN matrix |->
              Array([j \in DOMAIN matrix |-> Cosine(matrix[i], matrix[j])])])

(***************************************************************************)
(* The rebuild body of initialize_model as a function of the fetched data, *)
(* step by step: [ok |-> FALSE] when a step fails, otherwise the three     *)
(* objects that the commit assigns.                                        *)
(***************************************************************************)
\* lines 267-270: the similarity matrix of what was built
rebuild_built(rows, built) ==
    IF ~built.ok THEN None
    ELSE [ok |-> TRUE,
          df |-> rows,
          tfidf |-> built.tfidf,
          cosine_sim |-> calculate_similarity_matrix(built.matrix)]

\* lines 261-264: the TF-IDF matrix of the rows' texts
rebuild_rows(rows) ==
    rebuild_built(rows, build_tfidf_matrix(Array([n \in DOMAIN rows |->
                                                     rows[n].processed_text])))

\* lines 251-258: the rows with a non-empty processed text
rebuild_valid(cleaned, processed, valid_indices) ==
    IF Len(valid_indices) < 2 THEN None
    ELSE rebuild_rows(Array([n \in DOMAIN valid_indices |->
                                [id |-> cleaned[valid_indices[n]].id,
                                 bad |-> cleaned[valid_indices[n]].bad,
                                 processed_text |-> processed[valid_indices[n]]]]))

\* lines 247-249: valid_indices
rebuild_processed(cleaned, processed) ==
    rebuild_valid(cleaned, processed,
                  SelectIdx(processed,
                            Array([i \in DOMAIN processed |-> processed[i] # <<>>]), 1))

\* lines 234-244: the combined features and their processed texts
rebuild_cleaned(cleaned) ==
    IF cleaned = <<>> THEN None
    ELSE rebuild_processed(cleaned,
             batch_preprocess_text(Array([i \in DOMAIN cleaned |->
                                             create_combined_features(cleaned[i])])))

\* lines 228-233
rebuild(data) ==
    IF data = <<>> THEN None ELSE rebuild_cleaned(validate_and_clean_data(data))

(***************************************************************************)
(* The contents the document store may hand to a fetch.                    *)
(***************************************************************************)
Doc(id, deskripsi, kategori) ==
    [id |-> id, deskripsi |-> deskripsi, kategori |-> kategori, bad |-> FALSE]

BadDoc(id, deskripsi, kategori) ==
    [id |-> id, deskripsi |-> deskripsi, kategori |-> kategori, bad |-> TRUE]

\* the three records of the end-to-end scenario
CatalogABC ==
    << Doc("A", <<"aplikasi", "kesehatan", "digital">>, <<"kesehatan">>),
       Doc("B", <<"aplikasi", "kesehatan", "mobile">>, <<"kesehatan">>),
       Doc("C", <<"mesin", "pertanian", "otomatis">>, <<"pertanian">>) >>

\* two records only
CatalogTwo ==
    << Doc("A", <<"aplikasi", "digital">>, <<"kesehatan">>),
       Doc("B", <<"aplikasi", "mobile">>, <<"kesehatan">>) >>

\* one record with a text, the others without
CatalogOne ==
    << Doc("A", <<"aplikasi", "digital">>, <<"kesehatan">>),
       Doc("B", <<"yang">>, <<"di">>) >>

\* only records with a blank id
CatalogBlank == << Doc("", <<"aplikasi">>, <<"kesehatan">>) >>

\* twelve records with a text, eleven of them similar to A; C repeats the text
\* of B and cannot be materialized; two more records are dropped by the rebuild
CatalogBig ==
    << Doc("A", <<"aplikasi", "yang">>, <<"kesehatan">>),
       Doc(" ", <<"aplikasi">>, <<"kesehatan">>),
       Doc("B", <<"aplikasi">>, <<"digital">>),
       BadDoc("C", <<"aplikasi", "di">>, <<"digital">>),
       Doc("D", <<"aplikasi">>, <<"mobile">>),
       Doc("E", <<"aplikasi">>, <<"mobile", "x">>),
       Doc("F", <<"aplikasi">>, <<"mesin">>),
       Doc("G", <<"aplikasi">>, <<"mesin">>),
       Doc("M", <<"dan", "di">>, <<"se">>),
       Doc("H", <<"otomatis">>, <<"kesehatan">>),
       Doc("I", <<"otomatis">>, <<"kesehatan">>),
       Doc("J", <<"mobile">>, <<"kesehatan">>),
       Doc("K", <<"digital">>, <<"kesehatan">>),
       Doc("L", <<"mesin">>, <<"kesehatan">>) >>

\* an empty store, or one that could not be reached
CatalogEmpty == << >>

\* exactly one valid record
CatalogSingle == << Doc("A", <<"aplikasi", "digital">>, <<"kesehatan">>) >>

\* two records with the same text, and a third that has no text
CatalogTwin ==
    << Doc("A", <<"aplikasi", "digital">>, <<"kesehatan">>),
       Doc("B", <<"dan">>, <<"di">>),
       Doc("C", <<"aplikasi", "digital">>, <<"kesehatan">>) >>

Catalogs ==
    <<CatalogEmpty, CatalogABC, CatalogTwo, CatalogOne, CatalogBlank, CatalogBig,
      CatalogSingle, CatalogTwin>>

\* lines 233-249: the number of valid records of data whose processed text
\* is not empty
ValidTextCount(data) ==
    Len(SelectSeq(batch_preprocess_text(
                      Array([i \in DOMAIN validate_and_clean_data(data) |->
                                create_combined_features(validate_and_clean_data(data)[i])])),
                  LAMBDA text : text # <<>>))

\* the catalogs with fewer than 2 records that have a non-empty processed text
InsufficientCatalogs == {k \in DOMAIN Catalogs : ValidTextCount(Catalogs[k]) < 2}

\* the catalogs of which a rebuild retains exactly 2 rows
TwoRowCatalogs == {k \in DOMAIN Catalogs : ValidTextCount(Catalogs[k]) = 2}

\* the outcome of the rebuild body on each catalog, in the order of Catalogs
Rebuilt == Array([k \in DOMAIN Catalogs |-> rebuild(Catalogs[k])])

(***************************************************************************)
(* Ranking of get_recommendations (lines 392-406).  Rows are numbered from *)
(* 1 here, from 0 in the code.                                             *)
(***************************************************************************)
\* a lookup that falls back on the first row when there is no row with this id
FirstIndexOrFirst(rows, id) ==
    IF \E i \in DOMAIN rows : rows[i].id = id
    THEN CHOOSE i \in DOMAIN rows :
            /\ rows[i].id = id
            /\ \A j \in 1..(i - 1) : rows[j].id # id
    ELSE Min2(1, Len(rows))

\* position of the first row with this id, 0 when there is none
FirstIndex(rows, id) ==
    IF \E i \in DOMAIN rows : rows[i].id = id
    THEN CHOOSE i \in DOMAIN rows :
            /\ rows[i].id = id
            /\ \A j \in 1..(i - 1) : rows[j].id # id
    ELSE 0

\* list(enumerate(row))
Enumerate(row) == [i \in DOMAIN row |-> <<i, row[i]>>]

\* a filter that keeps every pair
FilterNothing(pairs, min_similarity) == pairs

\* [(i, score) for i, score in sim_scores if score >= min_similarity]
FilterMin(pairs, min_similarity) == SelectSeq(pairs, LAMBDA p : p[2] >= min_similarity)

RECURSIVE InsertDesc(_, _)
\* p put into the descending sequence s, after the elements of equal score
InsertDesc(s, p) ==
    IF s = <<>> THEN <<p>>
    ELSE IF s[1][2] >= p[2] THEN <<s[1]>> \o InsertDesc(Tail(s), p)
    ELSE <<p>> \o s

RECURSIVE SortDesc(_, _)
\* sorted(pairs, key=score, reverse=True): stable, equal scores keep their order
SortDesc(pairs, n) ==
    IF n = 0 THEN <<>> ELSE InsertDesc(SortDesc(pairs, n - 1), pairs[n])

\* the pairs left in the order of the rows
Unsorted(pairs) == pairs

SortedByScore(pairs) == SortDesc(pairs, Len(pairs))

\* sim_scores[1 : top_n + 1]
SliceTop(pairs, top_n) == SubSeq(pairs, 2, Min2(top_n + 1, Len(pairs)))

\* the (row, score) pairs get_recommendations materializes
RankedScores(row, top_n, min_similarity) ==
    SliceTop(SortedByScore(FilterMin(Enumerate(row), min_similarity)), top_n)

\* round(score, 4)
Round4(score) == (score + (ScoreScale \div Decimals) \div 2) \div (ScoreScale \div Decimals)

\* _process_recommendation_row: None (ok FALSE) for a row that cannot be
\* turned into a RecommendationResponse
process_recommendation_row(row, score) ==
    IF row.bad THEN [ok |-> FALSE, id |-> row.id, similarity_score |-> 0]
    ELSE [ok |-> TRUE, id |-> row.id, similarity_score |-> Round4(score)]

\* recommendations.append(rec) when rec is not None
AppendRec(recs, rec) ==
    IF rec.ok THEN Append(recs, [id |-> rec.id, similarity_score |-> rec.similarity_score])
    ELSE recs

(***************************************************************************)
(* Ranking of search_innovations (lines 493-514).                          *)
(***************************************************************************)
\* cosine_similarity(query_vector, documents): matrices of different widths
\* raise (ok FALSE)
QuerySimilarities(qvec, docs) ==
    IF \E i \in DOMAIN docs : Len(docs[i]) # Len(qvec)
    THEN [ok |-> FALSE, scores |-> <<>>]
    ELSE [ok |-> TRUE, scores |-> Array([i \in DOMAIN docs |-> Cosine(qvec, docs[i])])]

RECURSIVE InsertAsc(_, _)
\* p put into the ascending sequence s, after the elements of equal score
InsertAsc(s, p) ==
    IF s = <<>> THEN <<p>>
    ELSE IF s[1][2] <= p[2] THEN <<s[1]>> \o InsertAsc(Tail(s), p)
    ELSE <<p>> \o s

RECURSIVE SortAsc(_, _)
SortAsc(pairs, n) ==
    IF n = 0 THEN <<>> ELSE InsertAsc(SortAsc(pairs, n - 1), pairs[n])

\* s[-n:]: the last n elements, the whole of s for n = 0
LastN(s, n) == IF n = 0 \/ n >= Len(s) THEN s ELSE SubSeq(s, Len(s) - n + 1, Len(s))

\* s[::-1]
Reversed(s) == [i \in DOMAIN s |-> s[Len(s) + 1 - i]]

\* the (row, score) pairs search_innovations materializes: the top_indices
\* whose score is above the threshold; similarities.argsort() is ascending,
\* equal scores by index (the sort of arrays this short is an insertion sort)
SearchHits(scores, top_n) ==
    SelectSeq(Reversed(LastN(SortAsc(Enumerate(scores), Len(scores)), top_n)),
              LAMBDA p : p[2] > OnePercent)

\* top_indices with their scores when the similarities could be computed
HitsOf(sims, top_n) == IF sims.ok THEN SearchHits(sims.scores, top_n) ELSE <<>>

\* lines 493-510 on the vectorizer read at line 498 (qtfidf), the vectorizer
\* and the rows read at line 502 (dtfidf, rows)
SearchRanking(qtfidf, dtfidf, rows, query, top_n) ==
    HitsOf(QuerySimilarities(
               Transform(qtfidf, preprocess_text(query)),
               Array([i \in DOMAIN rows |-> Transform(dtfidf, rows[i].processed_text)])),
           top_n)

(***************************************************************************)
(* State.  The engine's fields, the lock, the clock, and per thread the    *)
(* call it is in (call), its position (pc), its local variables (loc) and  *)
(* the value its last call returned (result).                              *)
(*                                                                         *)
(* df, tfidf and cosine_sim refer to objects that do not change once       *)
(* built: gen is the identity of the object, the number of the rebuild     *)
(* that created it (0: None), and k the catalog it was built from.  builds *)
(* counts the rebuild bodies entered so far, the constructor's included.   *)
(* stamp_gen is the number of the rebuild that wrote last_update.          *)
(* Kept for the properties: loc[t].seen, the identities of the df, tfidf   *)
(* and cosine_sim objects the call of t has read; in call[t], absent (the  *)
(* call found the model uninitialized), expired (what the test of line 380 *)
(* found), rebuilds (the rebuild bodies the call has entered) and commits  *)
(* (the commits it has completed).                                         *)
(***************************************************************************)
VARIABLES df, tfidf, cosine_sim, last_update, is_initialized, lock,
          now, builds, stamp_gen, call, pc, loc, result

vars == <<df, tfidf, cosine_sim, last_update, is_initialized, lock,
          now, builds, stamp_gen, call, pc, loc, result>>

fields == <<df, tfidf, cosine_sim, last_update, is_initialized>>

\* None
NoObject == [gen |-> 0, k |-> 0]

\* an object that rebuild number g creates from catalog k
NewObject(g, k) == [gen |-> g, k |-> k]

\* the rows of a record table, the fitted vectorizer, the similarity matrix
Rows(d) == IF d.k = 0 THEN <<>> ELSE Rebuilt[d.k].df
Vectorizer(v) == IF v.k = 0 THEN None ELSE Rebuilt[v.k].tfidf
Matrix(c) == IF c.k = 0 THEN <<>> ELSE Rebuilt[c.k].cosine_sim

NoCall == [op |-> "none", innovation_id |-> "", query |-> <<>>, top_n |-> 0,
           min_similarity |-> 0,
           absent |-> FALSE, expired |-> "none", rebuilds |-> 0, commits |-> 0]

\* the locals of a thread outside any call
NoLoc == [force_refresh |-> FALSE, site |-> "none", current_time |-> 0,
          k |-> 0, g |-> 0,
          seen |-> {}, idx |-> 0,
          sim_scores |-> <<>>, futures |-> <<>>, pos |-> 0,
          recommendations |-> <<>>, late |-> 0, running |-> 0,
          qtfidf |-> NoObject, dtfidf |-> NoObject,
          total |-> 0, stamp |-> 0, stamp_of |-> 0, features |-> 0]

NoResult == [kind |-> "none"]

\* r with the fields of s replaced
Merge(r, s) == [f \in DOMAIN r |-> IF f \in DOMAIN s THEN s[f] ELSE r[f]]

Free(t) == pc[t] \in {"idle", "done"}

\* thread t moves to position p with the locals of s changed
Goto(t, p, s) ==
    /\ pc' = [pc EXCEPT ![t] = p]
    /\ loc' = [loc EXCEPT ![t] = Merge(@, s)]

\* thread t returns v from its call
Return(t, v) ==
    /\ pc' = [pc EXCEPT ![t] = "done"]
    /\ loc' = [loc EXCEPT ![t] = NoLoc]
    /\ result' = [result EXCEPT ![t] = v]

BoolResult(b) == [kind |-> "bool", value |-> b]
ListResult(l) == [kind |-> "list", value |-> l]

(***************************************************************************)
(* __init__: the state after the constructor's initialize_model(), run     *)
(* at time 0 before the engine is shared.                                  *)
(***************************************************************************)
Init ==
    /\ \E k \in DOMAIN Catalogs :
          IF Rebuilt[k].ok
          THEN /\ df = NewObject(1, k)
               /\ tfidf = NewObject(1, k)
               /\ cosine_sim = NewObject(1, k)
               /\ is_initialized = TRUE
          ELSE /\ df = NoObject
               /\ tfidf = NoObject
               /\ cosine_sim = NoObject
               /\ is_initialized = FALSE
    /\ last_update = 0
    /\ lock = 0
    /\ now = 0
    /\ builds = 1
    /\ stamp_gen = df.gen
    /\ call = [t \in Threads |-> NoCall]
    /\ pc = [t \in Threads |-> "idle"]
    /\ loc = [t \in Threads |-> NoLoc]
    /\ result = [t \in Threads |-> NoResult]

\* time.time() advances
Tick ==
    /\ now < MaxTime
    /\ now' = now + 1
    /\ UNCHANGED <<fields, lock, builds, stamp_gen, call, pc, loc, result>>

(***************************************************************************)
(* initialize_model(force_refresh), called at the top level, by            *)
(* force_refresh() or from get_recommendations (site).                     *)
(***************************************************************************)
call_initialize_model(t) ==
    /\ Free(t)
    /\ call' = [call EXCEPT ![t] = Merge(NoCall, [op |-> "initialize_model",
                                                  absent |-> ~is_initialized])]
    /\ Goto(t, "im_time", [force_refresh |-> FALSE, site |-> "top"])
    /\ result' = [result EXCEPT ![t] = NoResult]
    /\ UNCHANGED <<fields, lock, now, builds, stamp_gen>>

\* force_refresh(): return self.initialize_model(force_refresh=True)
call_force_refresh(t) ==
    /\ Free(t)
    /\ call' = [call EXCEPT ![t] = Merge(NoCall, [op |-> "force_refresh",
                                                  absent |-> ~is_initialized])]
    /\ Goto(t, "im_time", [force_refresh |-> TRUE, site |-> "top"])
    /\ result' = [result EXCEPT ![t] = NoResult]
    /\ UNCHANGED <<fields, lock, now, builds, stamp_gen>>

\* the locals of initialize_model, as they are outside it
ImLocals == [force_refresh |-> FALSE, site |-> "none", current_time |-> 0, k |-> 0, g |-> 0]

\* initialize_model returns b to the place that called it: the caller of the
\* engine, or get_recommendations at line 375 or 382 (if not
\* self.initialize_model(): return [])
im_return(t, b) ==
    CASE loc[t].site = "top" -> Return(t, BoolResult(b))
      [] loc[t].site # "top" /\ ~b -> Return(t, ListResult(<<>>))
      [] loc[t].site = "L375" /\ b ->
            Goto(t, "gr_time", ImLocals) /\ UNCHANGED result
      [] loc[t].site = "L382" /\ b ->
            Goto(t, "gr_find", ImLocals) /\ UNCHANGED result

\* current_time = time.time()
im_time(t) ==
    /\ pc[t] = "im_time"
    /\ Goto(t, "im_check", [current_time |-> now])
    /\ UNCHANGED <<fields, lock, now, builds, stamp_gen, call, result>>

\* a fast path that forgets the force_refresh argument
CacheFreshUnforced(t) ==
    /\ is_initialized
    /\ (loc[t].current_time - last_update) < cache_ttl

\* a fast path that forgets the age of the cache
CacheFreshAnyAge(t) ==
    /\ ~loc[t].force_refresh
    /\ is_initialized

\* the cache is fresh: not forced, initialized and younger than cache_ttl
CacheFresh(t) ==
    /\ ~loc[t].force_refresh
    /\ is_initialized
    /\ (loc[t].current_time - last_update) < cache_ttl

\* the check before the lock: return True on a fresh cache
im_check(t) ==
    /\ pc[t] = "im_check"
    /\ IF CacheFresh(t)
       THEN im_return(t, TRUE)
       ELSE Goto(t, "im_lock", <<>>) /\ UNCHANGED result
    /\ UNCHANGED <<fields, lock, now, builds, stamp_gen, call>>

\* a rebuild that does not wait for the lock
LockIgnored == TRUE

\* the lock can be taken
LockFree == lock = 0

\* with self.lock: enter
im_lock(t) ==
    /\ pc[t] = "im_lock"
    /\ LockFree
    /\ builds < MaxBuilds + 1
    /\ lock' = t
    /\ Goto(t, "im_body", <<>>)
    /\ UNCHANGED <<fields, now, builds, stamp_gen, call, result>>

\* a failure path that drops the model it could not replace
im_failed_reset(t) ==
    /\ lock' = 0
    /\ im_return(t, FALSE)
    /\ is_initialized' = FALSE
    /\ UNCHANGED <<df, tfidf, cosine_sim, last_update>>

\* return False from inside the with block: the early returns of lines
\* 229-270 and the except clause; no field is assigned
im_failed(t) ==
    /\ lock' = 0
    /\ im_return(t, FALSE)
    /\ UNCHANGED fields

\* a rebuild that commits whatever the steps before the commit produced
im_body_unchecked(t, k, exc) ==
    /\ pc[t] = "im_body"
    /\ builds' = builds + 1
    /\ call' = [call EXCEPT ![t].rebuilds = @ + 1]
    /\ IF exc
       THEN im_failed(t)
       ELSE /\ Goto(t, "im_df", [k |-> k, g |-> builds + 1])
            /\ UNCHANGED <<fields, lock, result>>
    /\ UNCHANGED <<now, stamp_gen>>

\* the steps of the rebuild up to the commit, on the catalog k the store
\* hands out; exc: a step raises and the except clause returns False.  A
\* failure leaves the with block and returns False
im_body(t, k, exc) ==
    /\ pc[t] = "im_body"
    /\ builds' = builds + 1
    /\ call' = [call EXCEPT ![t].rebuilds = @ + 1]
    /\ IF exc \/ ~Rebuilt[k].ok
       THEN im_failed(t)
       ELSE /\ Goto(t, "im_df", [k |-> k, g |-> builds + 1])
            /\ UNCHANGED <<fields, lock, result>>
    /\ UNCHANGED <<now, stamp_gen>>

\* self.df = df
im_df(t) ==
    /\ pc[t] = "im_df"
    /\ df' = NewObject(loc[t].g, loc[t].k)
    /\ Goto(t, "im_tfidf", <<>>)
    /\ UNCHANGED <<tfidf, cosine_sim, last_update, is_initialized, lock, now,
                   builds, stamp_gen, call, result>>

\* self.tfidf = tfidf
im_tfidf(t) ==
    /\ pc[t] = "im_tfidf"
    /\ tfidf' = NewObject(loc[t].g, loc[t].k)
    /\ Goto(t, "im_sim", <<>>)
    /\ UNCHANGED <<df, cosine_sim, last_update, is_initialized, lock, now,
                   builds, stamp_gen, call, result>>

\* self.cosine_sim = cosine_sim
im_sim(t) ==
    /\ pc[t] = "im_sim"
    /\ cosine_sim' = NewObject(loc[t].g, loc[t].k)
    /\ Goto(t, "im_stamp", <<>>)
    /\ UNCHANGED <<df, tfidf, last_update, is_initialized, lock, now,
                   builds, stamp_gen, call, result>>

\* self.last_update = current_time
im_stamp(t) ==
    /\ pc[t] = "im_stamp"
    /\ last_update' = loc[t].current_time
    /\ stamp_gen' = loc[t].g
    /\ Goto(t, "im_flag", <<>>)
    /\ UNCHANGED <<df, tfidf, cosine_sim, is_initialized, lock, now,
                   builds, call, result>>

\* self.is_initialized = True
im_flag(t) ==
    /\ pc[t] = "im_flag"
    /\ is_initialized' = TRUE
    /\ call' = [call EXCEPT ![t].commits = @ + 1]
    /\ Goto(t, "im_unlock", <<>>)
    /\ UNCHANGED <<df, tfidf, cosine_sim, last_update, lock, now,
                   builds, stamp_gen, result>>

\* return True, leaving the with block
im_unlock(t) ==
    /\ pc[t] = "im_unlock"
    /\ lock' = 0
    /\ im_return(t, TRUE)
    /\ UNCHANGED <<fields, now, builds, stamp_gen, call>>

(***************************************************************************)
(* get_recommendations(innovation_id, top_n, min_similarity).              *)
(***************************************************************************)
\* the calls the model makes
RecArgs ==
    { [innovation_id |-> "A", top_n |-> 2, min_similarity |-> OnePercent],
      [innovation_id |-> "A", top_n |-> 11, min_similarity |-> OnePercent],
      [innovation_id |-> "B", top_n |-> 2, min_similarity |-> OnePercent],
      [innovation_id |-> "C", top_n |-> 5, min_similarity |-> 0],
      [innovation_id |-> "A", top_n |-> 0, min_similarity |-> OnePercent],
      [innovation_id |-> "X", top_n |-> 5, min_similarity |-> OnePercent],
      [innovation_id |-> " ", top_n |-> 5, min_similarity |-> OnePercent] }

\* a call that does not test its id for blankness
get_recommendations_unchecked(t, a) ==
    /\ Free(t)
    /\ call' = [call EXCEPT ![t] = Merge(NoCall, [op |-> "get_recommendations",
                                                  absent |-> ~is_initialized] @@ a)]
    /\ result' = [result EXCEPT ![t] = NoResult]
    /\ IF ~is_initialized
       THEN Goto(t, "im_time", [force_refresh |-> FALSE, site |-> "L375"])
       ELSE Goto(t, "gr_time", <<>>)
    /\ UNCHANGED <<fields, lock, now, builds, stamp_gen>>

\* lines 368-376: the blank id is rejected, an uninitialized model is initialized
call_get_recommendations(t, a) ==
    /\ Free(t)
    /\ call' = [call EXCEPT ![t] = Merge(NoCall, [op |-> "get_recommendations",
                                                  absent |-> ~is_initialized] @@ a)]
    /\ IF Strip(a.innovation_id) = ""
       THEN Return(t, ListResult(<<>>))
       ELSE /\ result' = [result EXCEPT ![t] = NoResult]
            /\ IF ~is_initialized
               THEN Goto(t, "im_time", [force_refresh |-> FALSE, site |-> "L375"])
               ELSE Goto(t, "gr_time", <<>>)
    /\ UNCHANGED <<fields, lock, now, builds, stamp_gen>>

\* (current_time - self.last_update) > self.cache_ttl
CacheExpired == (now - last_update) > cache_ttl

\* a call that refreshes the model whatever its age
gr_time_refreshing(t) ==
    /\ pc[t] = "gr_time"
    /\ Goto(t, "im_time", [force_refresh |-> FALSE, site |-> "L382"])
    /\ call' = [call EXCEPT ![t].expired = IF CacheExpired THEN "yes" ELSE "no"]
    /\ UNCHANGED <<fields, lock, now, builds, stamp_gen, result>>

\* lines 379-382: refresh an expired cache
gr_time(t) ==
    /\ pc[t] = "gr_time"
    /\ IF CacheExpired
       THEN Goto(t, "im_time", [force_refresh |-> FALSE, site |-> "L382"])
       ELSE Goto(t, "gr_find", <<>>)
    /\ call' = [call EXCEPT ![t].expired = IF CacheExpired THEN "yes" ELSE "no"]
    /\ UNCHANGED <<fields, lock, now, builds, stamp_gen, result>>

\* lines 387-392: the row of innovation_id in self.df (both reads of self.df
\* are taken here); None raises, and the except clause returns []
gr_find(t) ==
    /\ pc[t] = "gr_find"
    /\ \E idx \in {FirstIndex(Rows(df), call[t].innovation_id)} :
          IF df.gen = 0 \/ idx = 0
          THEN Return(t, ListResult(<<>>))
          ELSE /\ Goto(t, "gr_sim", [idx |-> idx, seen |-> loc[t].seen \cup {df.gen}])
               /\ UNCHANGED result
    /\ UNCHANGED <<fields, lock, now, builds, stamp_gen, call>>

\* lines 395-406: row idx of self.cosine_sim, filtered, sorted and sliced;
\* a row that is not there raises
gr_sim(t) ==
    /\ pc[t] = "gr_sim"
    /\ \E matrix \in {Matrix(cosine_sim)} :
          IF loc[t].idx > Len(matrix)
          THEN Return(t, ListResult(<<>>))
          ELSE \E sim_scores \in {RankedScores(matrix[loc[t].idx], call[t].top_n,
                                                call[t].min_similarity)} :
                  IF sim_scores = <<>>
                  THEN Return(t, ListResult(<<>>))
                  ELSE /\ Goto(t, IF Len(sim_scores) > PoolThreshold
                                  THEN "gr_submit" ELSE "gr_serial",
                               [sim_scores |-> sim_scores, pos |-> 1,
                                seen |-> loc[t].seen \cup {cosine_sim.gen}])
                       /\ UNCHANGED result
    /\ UNCHANGED <<fields, lock, now, builds, stamp_gen, call>>

\* another thread is about to assign self.df
DfWritePending(t) == \E u \in Threads \ {t} : pc[u] = "im_df"

\* every row the pairs from..to name is a row of rows
RowsThere(pairs, rows, from, to) == \A n \in from..to : pairs[n][1] <= Len(rows)

RECURSIVE Materialized(_, _, _, _)
\* _process_recommendation_row on the rows the pairs from..to name
Materialized(pairs, rows, from, to) ==
    IF from > to THEN <<>>
    ELSE <<process_recommendation_row(rows[pairs[from][1]], pairs[from][2])>>
            \o Materialized(pairs, rows, from + 1, to)

RECURSIVE Collected(_, _, _)
\* the results of the materialized rows from n on that are kept: not None and
\* not among the late ones
Collected(recs, late, n) ==
    IF n > Len(recs) THEN <<>>
    ELSE IF n \in late THEN Collected(recs, late, n + 1)
    ELSE AppendRec(<<>>, recs[n]) \o Collected(recs, late, n + 1)

\* lines 431-437, the serial loop: row = self.df.iloc[i] and its
\* materialization, for the pairs pos..j.  The reads of self.df commute with
\* every step of another thread but its assignment to self.df, so the loop is
\* followed in one step up to its end, or up to a point where another thread
\* is about to assign self.df.  self.df.iloc[i] raises when there is no row i.
gr_serial(t) ==
    /\ pc[t] = "gr_serial"
    /\ \E j \in loc[t].pos..Len(loc[t].sim_scores), rows \in {Rows(df)} :
          /\ j = Len(loc[t].sim_scores) \/ DfWritePending(t)
          /\ IF ~RowsThere(loc[t].sim_scores, rows, loc[t].pos, j)
             THEN Return(t, ListResult(<<>>))
             ELSE \E recs \in {loc[t].recommendations
                                  \o Collected(Materialized(loc[t].sim_scores, rows,
                                                            loc[t].pos, j), {}, 1)} :
                     IF j = Len(loc[t].sim_scores)
                     THEN Return(t, ListResult(recs))
                     ELSE /\ Goto(t, "gr_serial",
                                  [recommendations |-> recs, pos |-> j + 1,
                                   seen |-> loc[t].seen \cup {df.gen}])
                          /\ UNCHANGED result
    /\ UNCHANGED <<fields, lock, now, builds, stamp_gen, call>>

\* lines 414-419, the submitting loop of the pool path, followed like the
\* serial loop; futures holds what each task returns
gr_submit(t) ==
    /\ pc[t] = "gr_submit"
    /\ \E j \in loc[t].pos..Len(loc[t].sim_scores), rows \in {Rows(df)} :
          /\ j = Len(loc[t].sim_scores) \/ DfWritePending(t)
          /\ IF ~RowsThere(loc[t].sim_scores, rows, loc[t].pos, j)
             THEN Return(t, ListResult(<<>>))
             ELSE /\ Goto(t, IF j = Len(loc[t].sim_scores)
                             THEN "gr_collect" ELSE "gr_submit",
                          [futures |-> loc[t].futures
                                         \o Materialized(loc[t].sim_scores, rows,
                                                         loc[t].pos, j),
                           pos |-> j + 1,
                           seen |-> loc[t].seen \cup {df.gen}])
                  /\ UNCHANGED result
    /\ UNCHANGED <<fields, lock, now, builds, stamp_gen, call>>

\* lines 421-428, the collecting loop: future.result(timeout=5) of every
\* future in turn; n of the tasks do not finish within the timeout (which
\* ones is settled where their results are left out, at the return)
gr_collect(t, n) ==
    /\ pc[t] = "gr_collect"
    /\ Goto(t, "gr_shutdown", [late |-> n, running |-> n])
    /\ UNCHANGED <<fields, lock, now, builds, stamp_gen, call, result>>

\* a task that was late finishes
pool_task_done(t) ==
    /\ pc[t] = "gr_shutdown"
    /\ loc[t].running > 0
    /\ Goto(t, "gr_shutdown", [running |-> loc[t].running - 1])
    /\ UNCHANGED <<fields, lock, now, builds, stamp_gen, call, result>>

\* the end of the with block, executor.shutdown(wait=True), waits for every
\* task; then return recommendations: the results of the futures but those,
\* late, whose result(timeout=5) raised
gr_shutdown(t) ==
    /\ pc[t] = "gr_shutdown"
    /\ loc[t].running = 0
    /\ \E late \in SubsetsOfSize(Len(loc[t].futures), loc[t].late) :
          Return(t, ListResult(Collected(loc[t].futures, late, 1)))
    /\ UNCHANGED <<fields, lock, now, builds, stamp_gen, call>>

get_recommendations(t) ==
    \/ gr_time(t)
    \/ gr_find(t)
    \/ gr_sim(t)
    \/ gr_serial(t)
    \/ gr_submit(t)
    \/ \E n \in 0..MaxTimeouts : gr_collect(t, n)
    \/ pool_task_done(t)
    \/ gr_shutdown(t)

(***************************************************************************)
(* search_innovations(query, top_n).  A query is its sequence of words.    *)
(***************************************************************************)
SearchArgs ==
    { [query |-> <<"aplikasi", "kesehatan">>, top_n |-> 10],
      [query |-> <<"aplikasi", "kesehatan">>, top_n |-> 0],
      [query |-> <<"robot">>, top_n |-> 10],
      [query |-> <<"yang">>, top_n |-> 10],
      [query |-> <<>>, top_n |-> 10] }

\* a search that refreshes the model as get_recommendations does
search_ensuring_fresh(t, a) ==
    /\ Free(t)
    /\ call' = [call EXCEPT ![t] = Merge(NoCall, [op |-> "search_innovations",
                                                  absent |-> ~is_initialized] @@ a)]
    /\ result' = [result EXCEPT ![t] = NoResult]
    /\ IF ~is_initialized \/ (now - last_update) > cache_ttl
       THEN Goto(t, "im_time", [force_refresh |-> FALSE, site |-> "top"])
       ELSE Goto(t, "si_query", <<>>)
    /\ UNCHANGED <<fields, lock, now, builds, stamp_gen>>

\* lines 488-495: nothing for an uninitialized model, a blank query or a
\* query that normalises to nothing
call_search_innovations(t, a) ==
    /\ Free(t)
    /\ call' = [call EXCEPT ![t] = Merge(NoCall, [op |-> "search_innovations",
                                                  absent |-> ~is_initialized] @@ a)]
    /\ IF ~is_initialized \/ a.query = <<>> \/ preprocess_text(a.query) = <<>>
       THEN Return(t, ListResult(<<>>))
       ELSE /\ result' = [result EXCEPT ![t] = NoResult]
            /\ Goto(t, "si_query", <<>>)
    /\ UNCHANGED <<fields, lock, now, builds, stamp_gen>>

\* line 498: query_vector = self.tfidf.transform([processed_query])
si_query(t) ==
    /\ pc[t] = "si_query"
    /\ IF tfidf.gen = 0
       THEN Return(t, ListResult(<<>>))
       ELSE /\ Goto(t, "si_tfidf", [qtfidf |-> tfidf, seen |-> loc[t].seen \cup {tfidf.gen}])
            /\ UNCHANGED result
    /\ UNCHANGED <<fields, lock, now, builds, stamp_gen, call>>

\* line 502: the read of self.tfidf in self.tfidf.transform(...)
si_tfidf(t) ==
    /\ pc[t] = "si_tfidf"
    /\ Goto(t, "si_df", [dtfidf |-> tfidf, seen |-> loc[t].seen \cup {tfidf.gen}])
    /\ UNCHANGED <<fields, lock, now, builds, stamp_gen, call, result>>

\* lines 501-510: the read of self.df["processed_text"], the similarities of
\* the query to every row and the top_indices above the threshold
si_df(t) ==
    /\ pc[t] = "si_df"
    /\ \E hits \in {SearchRanking(Vectorizer(loc[t].qtfidf), Vectorizer(loc[t].dtfidf),
                                   Rows(df), call[t].query, call[t].top_n)} :
          IF df.gen = 0 \/ hits = <<>>
          THEN Return(t, ListResult(<<>>))
          ELSE /\ Goto(t, "gr_serial", [sim_scores |-> hits, pos |-> 1,
                                        qtfidf |-> NoObject, dtfidf |-> NoObject,
                                        seen |-> loc[t].seen \cup {df.gen}])
               /\ UNCHANGED result
    /\ UNCHANGED <<fields, lock, now, builds, stamp_gen, call>>

\* the loop of lines 509-514 is the serial loop of gr_serial
search_innovations(t) ==
    \/ si_query(t)
    \/ si_tfidf(t)
    \/ si_df(t)

(***************************************************************************)
(* get_model_stats().                                                      *)
(***************************************************************************)
\* the report; seen and stamp_of tell which rebuilds the reported objects and
\* the reported last_update come from
StatsResult(status, total, stamp, features, shape, seen, stamp_of) ==
    [kind |-> "stats", status |-> status, total_innovations |-> total,
     last_update |-> stamp, cache_ttl |-> cache_ttl, tfidf_features |-> features,
     similarity_matrix_shape |-> shape, seen |-> seen, stamp_of |-> stamp_of]

\* lines 450-451
call_get_model_stats(t) ==
    /\ Free(t)
    /\ call' = [call EXCEPT ![t] = Merge(NoCall, [op |-> "get_model_stats",
                                                  absent |-> ~is_initialized])]
    /\ IF ~is_initialized
       THEN Return(t, StatsResult("not_initialized", 0, 0, 0, <<>>, {}, 0))
       ELSE /\ result' = [result EXCEPT ![t] = NoResult]
            /\ Goto(t, "gs_df", <<>>)
    /\ UNCHANGED <<fields, lock, now, builds, stamp_gen>>

\* line 455: len(self.df) if self.df is not None else 0
gs_df(t) ==
    /\ pc[t] = "gs_df"
    /\ Goto(t, "gs_stamp", [total |-> Len(Rows(df)),
                            seen |-> loc[t].seen \cup ({df.gen} \ {0})])
    /\ UNCHANGED <<fields, lock, now, builds, stamp_gen, call, result>>

\* line 456: self.last_update
gs_stamp(t) ==
    /\ pc[t] = "gs_stamp"
    /\ Goto(t, "gs_tfidf", [stamp |-> last_update, stamp_of |-> stamp_gen])
    /\ UNCHANGED <<fields, lock, now, builds, stamp_gen, call, result>>

\* lines 458-460: self.tfidf.get_feature_names_out().shape[0] if self.tfidf else 0
gs_tfidf(t) ==
    /\ pc[t] = "gs_tfidf"
    /\ Goto(t, "gs_sim",
            [features |-> IF tfidf.gen = 0 THEN 0
                          ELSE Len(Vectorizer(tfidf).features),
             seen |-> loc[t].seen \cup ({tfidf.gen} \ {0})])
    /\ UNCHANGED <<fields, lock, now, builds, stamp_gen, call, result>>

\* lines 461-463: self.cosine_sim.shape if self.cosine_sim is not None else None
gs_sim(t) ==
    /\ pc[t] = "gs_sim"
    /\ Return(t, StatsResult("initialized", loc[t].total, loc[t].stamp, loc[t].features,
                             (IF Matrix(cosine_sim) = <<>> THEN <<>>
                              ELSE <<Len(Matrix(cosine_sim)), Len(Matrix(cosine_sim)[1])>>),
                             loc[t].seen \cup ({cosine_sim.gen} \ {0}), loc[t].stamp_of))
    /\ UNCHANGED <<fields, lock, now, builds, stamp_gen, call>>

get_model_stats(t) ==
    \/ gs_df(t)
    \/ gs_stamp(t)
    \/ gs_tfidf(t)
    \/ gs_sim(t)

initialize_model(t) ==
    \/ im_time(t)
    \/ im_check(t)
    \/ im_lock(t)
    \/ \E k \in DOMAIN Catalogs, exc \in BOOLEAN : im_body(t, k, exc)
    \/ im_df(t)
    \/ im_tfidf(t)
    \/ im_sim(t)
    \/ im_stamp(t)
    \/ im_flag(t)
    \/ im_unlock(t)

\* a thread that only refreshes the model
Refresher(t) ==
    \/ call_initialize_model(t)
    \/ call_force_refresh(t)
    \/ initialize_model(t)

\* a thread that makes every call of the engine
Client(t) ==
    \/ Refresher(t)
    \/ \E a \in RecArgs : call_get_recommendations(t, a)
    \/ get_recommendations(t)
    \/ \E a \in SearchArgs : call_search_innovations(t, a)
    \/ search_innovations(t)
    \/ call_get_model_stats(t)
    \/ get_model_stats(t)

\* thread 1 is a client, the other threads refresh the model concurrently
Next ==
    \/ Tick
    \/ Client(1)
    \/ \E t \in Threads \ {1} : Refresher(t)

Spec == Init /\ [][Next]_vars

\* one client alone: no other thread calls the engine
NextSeq ==
    \/ Tick
    \/ Client(1)

SpecSeq == Init /\ [][NextSeq]_vars

(***************************************************************************)
(* The engine on a store that never holds two records with a text: the     *)
(* constructor has left the model uninitialized and every fetch returns    *)
(* one of InsufficientCatalogs.  The steps are the steps of Next that can  *)
(* be taken from the positions such a run reaches.                         *)
(***************************************************************************)
InitOne == Init /\ ~is_initialized

initialize_model_one(t) ==
    \/ im_time(t)
    \/ im_check(t)
    \/ im_lock(t)
    \/ \E k \in InsufficientCatalogs, exc \in BOOLEAN : im_body(t, k, exc)

RefresherOne(t) ==
    \/ call_initialize_model(t)
    \/ call_force_refresh(t)
    \/ initialize_model_one(t)

ClientOne(t) ==
    \/ RefresherOne(t)
    \/ \E a \in RecArgs : call_get_recommendations(t, a)
    \/ \E a \in SearchArgs : call_search_innovations(t, a)
    \/ call_get_model_stats(t)

NextOne ==
    \/ Tick
    \/ ClientOne(1)
    \/ \E t \in Threads \ {1} : RefresherOne(t)

SpecOne == InitOne /\ [][NextOne]_vars

(***************************************************************************)
(* The engine on a store that, after the constructor, only hands out       *)
(* catalogs of which a rebuild retains exactly 2 rows.  The steps are the  *)
(* steps of Next that can be taken from the positions such a run reaches.  *)
(***************************************************************************)
initialize_model_two(t) ==
    \/ im_time(t)
    \/ im_check(t)
    \/ im_lock(t)
    \/ \E k \in TwoRowCatalogs, exc \in BOOLEAN : im_body(t, k, exc)

RefresherTwo(t) ==
    \/ call_initialize_model(t)
    \/ call_force_refresh(t)
    \/ initialize_model_two(t)

ClientTwo(t) ==
    \/ RefresherTwo(t)
    \/ \E a \in RecArgs : call_get_recommendations(t, a)
    \/ get_recommendations(t)
    \/ \E a \in SearchArgs : call_search_innovations(t, a)
    \/ search_innovations(t)
    \/ call_get_model_stats(t)
    \/ get_model_stats(t)

NextTwo ==
    \/ Tick
    \/ ClientTwo(1)
    \/ \E t \in Threads \ {1} : RefresherTwo(t)

SpecTwo == Init /\ [][NextTwo]_vars

(***************************************************************************)
(* preprocess_text called on its own (it is a function of the module       *)
(* text_processing): on every text of at most MaxPieces pieces, and again  *)
(* on the text it returned.                                                *)
(***************************************************************************)
\* the pieces the texts are made of: a blank, a derived word whose root is a
\* stopword, two stopwords, a root, a letter, a digit, a punctuation mark, the
\* underscore, a capital, a backslash and an escaped unicode character
Pieces ==
    << <<Space>>,
       <<"p", "e", "n", "g", "g", "u", "n", "a", "a", "n">>,
       <<"g", "u", "n", "a">>,
       <<"d", "i">>,
       <<"o", "l", "a", "h">>,
       <<"n">>,
       <<"1">>,
       <<".">>,
       <<"_">>,
       <<"A">>,
       <<Backslash>>,
       <<Backslash, "u", "0", "0", "e", "9">> >>

RECURSIVE Flatten(_)
\* the text made of the pieces ps numbers
Flatten(ps) == IF ps = <<>> THEN <<>> ELSE Pieces[ps[1]] \o Flatten(Tail(ps))

\* the texts of at most MaxPieces pieces
Texts == {Flatten(ps) : ps \in UNION {[1..n -> DOMAIN Pieces] : n \in 0..MaxPieces}}

\* the call preprocess_text(text) as one step; raises: the words on which
\* the stemmer raises
preprocess_text_returns(t, text, raises) ==
    /\ call' = [call EXCEPT ![t] = [op |-> "preprocess_text", text |-> text,
                                    raises |-> raises]]
    /\ Return(t, [kind |-> "text", value |-> preprocess_text_chars(text, raises)])
    /\ UNCHANGED <<fields, lock, now, builds, stamp_gen>>

\* preprocess_text(text) on a text of Texts
call_preprocess_text(t, text, raises) ==
    /\ pc[t] = "idle"
    /\ preprocess_text_returns(t, text, raises)

\* preprocess_text on the text the last call returned, with the same stemmer
preprocess_text_again(t) ==
    /\ pc[t] = "done"
    /\ call[t].op = "preprocess_text"
    /\ preprocess_text_returns(t, result[t].value, call[t].raises)

\* the stemmer works, or raises on one word
NextText ==
    \/ \E text \in Texts, raises \in {{}, {"olah"}} : call_preprocess_text(1, text, raises)
    \/ preprocess_text_again(1)

SpecText == Init /\ [][NextText]_vars

(***************************************************************************)
(* Properties.                                                             *)
(***************************************************************************)
\* the positions inside the with block of initialize_model
RebuildBody == {"im_body", "im_df", "im_tfidf", "im_sim", "im_stamp", "im_flag", "im_unlock"}

\* the positions inside initialize_model
InInitialize == {"im_time", "im_check", "im_lock"} \cup RebuildBody

\* thread t starts a call in this step
Calls(t) == Free(t) /\ <<pc[t], call[t], result[t]>>' # <<pc[t], call[t], result[t]>>

\* the ids of the records of a result
ResultIds(r) == {r.value[n].id : n \in DOMAIN r.value}

\* C1: in every interleaving, the df, tfidf and cosine_sim objects a read
\* call (get_recommendations, search_innovations, get_model_stats) uses all
\* come from one rebuild
NoTornSnapshot ==
    \A t \in Threads :
        /\ Cardinality(loc[t].seen) <= 1
        /\ result[t].kind = "stats" => Cardinality(result[t].seen) <= 1

\* C2: at most one thread is inside the rebuild body of initialize_model
RebuildMutualExclusion == Cardinality({t \in Threads : pc[t] \in RebuildBody}) <= 1

\* a recommend call rebuilds for an expired cache while another thread waits
\* for the lock
RebuildWhileWaiting ==
    /\ pc[1] \in RebuildBody
    /\ call[1].op = "get_recommendations"
    /\ \E u \in Threads \ {1} : pc[u] = "im_lock"

\* C3: a step in which initialize_model fails leaves df, tfidf, cosine_sim,
\* last_update and is_initialized as they are, and the call returns False
\* (get_recommendations, which called it, returns [])
FailedRebuildChangesNothing ==
    [][\A t \in Threads :
          (pc[t] = "im_body" /\ pc'[t] \notin {"im_body", "im_df"}) =>
              /\ fields' = fields
              /\ pc'[t] = "done"
              /\ result'[t] = IF loc[t].site = "top" THEN BoolResult(FALSE)
                              ELSE ListResult(<<>>)]_vars

\* a forced rebuild of an initialized model has failed and the model built
\* by the constructor is still there
FailedRebuildKeptModel ==
    \E t \in Threads :
        /\ pc[t] = "done"
        /\ call[t].op = "force_refresh"
        /\ call[t].rebuilds = 1
        /\ result[t] = BoolResult(FALSE)
        /\ is_initialized
        /\ df.gen = 1 /\ tfidf.gen = 1 /\ cosine_sim.gen = 1

\* C4: the result of get_recommendations(id) has no record whose id is id
SelfExclusion ==
    \A t \in Threads :
        (pc[t] = "done" /\ call[t].op = "get_recommendations" /\ result[t].kind = "list")
            => call[t].innovation_id \notin ResultIds(result[t])

\* C5: with one client alone, a get_recommendations call with a non-blank id
\* that finds the model initialized has, once past the test of line 380,
\* entered exactly one rebuild when the test found the age above cache_ttl,
\* and none when it did not
TTLExpiryRebuildsOnce ==
    \A t \in Threads :
        (/\ call[t].op = "get_recommendations"
         /\ ~call[t].absent
         /\ pc[t] \in {"gr_find", "gr_sim", "gr_serial", "gr_submit", "gr_collect",
                       "gr_shutdown", "done"})
            => /\ call[t].expired = "yes" => call[t].rebuilds = 1
               /\ call[t].expired = "no" => call[t].rebuilds = 0

\* a call has found the cache expired, rebuilt it once and answered from
\* the new snapshot
ExpiredCacheRebuiltOnce ==
    \E t \in Threads :
        /\ pc[t] = "done"
        /\ call[t].op = "get_recommendations"
        /\ ~call[t].absent
        /\ call[t].expired = "yes"
        /\ call[t].rebuilds = 1
        /\ call[t].commits = 1
        /\ result[t].kind = "list" /\ result[t].value # <<>>

\* C6, as claimed: a search_innovations call with a non-blank query made
\* when the model is uninitialized or older than cache_ttl calls
\* initialize_model before answering
SearchEnsuresFresh ==
    [][\A t \in Threads :
          (/\ Calls(t)
           /\ call'[t].op = "search_innovations"
           /\ call'[t].query # <<>>
           /\ (~is_initialized \/ (now - last_update) > cache_ttl))
              => pc'[t] = "im_time"]_vars

\* C6, amended: a get_recommendations call with a non-blank id calls
\* initialize_model when it finds the model uninitialized or older than
\* cache_ttl; a search_innovations call never does: it returns [] when it
\* finds the model uninitialized and otherwise goes on to the cached
\* snapshot whatever its age, and no rebuild is ever entered by it
OnlyRecommendEnsuresFresh ==
    [][\A t \in Threads :
          /\ (Calls(t) /\ call'[t].op = "get_recommendations"
                /\ Strip(call'[t].innovation_id) # "" /\ ~is_initialized)
                => pc'[t] = "im_time"
          /\ (pc[t] = "gr_time" /\ pc'[t] # "gr_time" /\ (now - last_update) > cache_ttl)
                => pc'[t] = "im_time"
          /\ (Calls(t) /\ call'[t].op = "search_innovations" /\ ~is_initialized)
                => (pc'[t] = "done" /\ result'[t] = ListResult(<<>>))
          /\ call'[t].op = "search_innovations"
                => (pc'[t] \notin InInitialize /\ call'[t].rebuilds = 0)]_vars

\* a search has been answered from a snapshot older than cache_ttl that no
\* rebuild has replaced
StaleSearchAnswered ==
    \E t \in Threads :
        /\ pc[t] = "done"
        /\ call[t].op = "search_innovations"
        /\ result[t].kind = "list" /\ result[t].value # <<>>
        /\ (now - last_update) > cache_ttl
        /\ builds = 1

\* C7: when the rebuild that get_recommendations triggers for an expired
\* cache fails and the id is a record of the snapshot in place, the call goes
\* on to answer from that snapshot
ServesPreviousSnapshotAfterFailedRefresh ==
    [][\A t \in Threads :
          (/\ pc[t] = "im_body" /\ pc'[t] \notin {"im_body", "im_df"}
           /\ loc[t].site = "L382"
           /\ FirstIndex(Rows(df), call[t].innovation_id) # 0)
              => pc'[t] = "gr_find"]_vars

\* C8: a force_refresh call that has returned has entered the rebuild body
\* exactly once, and has returned True exactly when it completed the commit
ForceRefreshAlwaysRebuilds ==
    \A t \in Threads :
        (pc[t] = "done" /\ call[t].op = "force_refresh")
            => /\ call[t].rebuilds = 1
               /\ result[t].kind = "bool"
               /\ result[t].value <=> call[t].commits = 1

\* a force_refresh of an initialized model of age 0 has rebuilt it
ForcedRebuildOfFreshModel ==
    \E t \in Threads :
        /\ pc[t] = "done"
        /\ call[t].op = "force_refresh"
        /\ ~call[t].absent
        /\ now = 0
        /\ result[t] = BoolResult(TRUE)
        /\ df.gen > 1

\* C9: a report of get_model_stats with status initialized has a record
\* count equal to both dimensions of the matrix shape, and its last_update
\* was written by the rebuild that made the reported objects
StatsReportCommittedSnapshot ==
    \A t \in Threads :
        (result[t].kind = "stats" /\ result[t].status = "initialized")
            => /\ result[t].similarity_matrix_shape
                    = <<result[t].total_innovations, result[t].total_innovations>>
               /\ result[t].seen = {result[t].stamp_of}

\* C10: the sequence get_recommendations returns is non-increasing in
\* similarity_score
MonotonicRanking ==
    \A t \in Threads :
        (call[t].op = "get_recommendations" /\ result[t].kind = "list")
            => \A n \in 1..(Len(result[t].value) - 1) :
                  result[t].value[n].similarity_score
                      >= result[t].value[n + 1].similarity_score

\* the pool path has returned 9 of 11 rows, one skipped for a row that does
\* not materialize and one for a late task, with different scores
PoolRankingWithSkippedRows ==
    \E t \in Threads :
        /\ pc[t] = "done"
        /\ call[t].op = "get_recommendations"
        /\ call[t].top_n > PoolThreshold
        /\ result[t].kind = "list"
        /\ Len(result[t].value) = 9
        /\ result[t].value[1].similarity_score > result[t].value[9].similarity_score

\* the ids of the records of every catalog of the store
KnownIds == UNION {{Catalogs[k][n].id : n \in DOMAIN Catalogs[k]} : k \in DOMAIN Catalogs}

\* C11: a get_recommendations call whose id is not the id of any row of the
\* df it reads at line 387 ends at that step with the empty list, and a call
\* with an id no catalog has returns the empty list whatever the state of the
\* cache it found (no result of the model is an exception)
UnknownIdReturnsEmpty ==
    [][\A t \in Threads :
          /\ (/\ pc[t] = "gr_find" /\ pc'[t] # "gr_find"
              /\ \A n \in DOMAIN Rows(df) : Rows(df)[n].id # call[t].innovation_id)
                => (pc'[t] = "done" /\ result'[t] = ListResult(<<>>))
          /\ (/\ pc'[t] = "done"
              /\ call'[t].op = "get_recommendations"
              /\ call'[t].innovation_id \notin KnownIds)
                => result'[t] = ListResult(<<>>)]_vars

\* an unknown, non-blank id has been looked up in the snapshot the call
\* itself rebuilt for an expired cache
UnknownIdAfterRefresh ==
    \E t \in Threads :
        /\ pc[t] = "done"
        /\ call[t].op = "get_recommendations"
        /\ call[t].innovation_id = "X"
        /\ ~call[t].absent
        /\ call[t].expired = "yes"
        /\ call[t].commits = 1
        /\ result[t] = ListResult(<<>>)

\* C12: the step that calls get_recommendations with a blank id, or
\* search_innovations with a blank query, ends the call with the empty list,
\* enters no rebuild, takes no lock and leaves df, tfidf, cosine_sim,
\* last_update and is_initialized unchanged, whatever the state of the model
BlankInputsRejected ==
    [][\A t \in Threads :
          (/\ Calls(t)
           /\ \/ call'[t].op = "get_recommendations" /\ Strip(call'[t].innovation_id) = ""
              \/ call'[t].op = "search_innovations" /\ call'[t].query = <<>>)
              => /\ pc'[t] = "done"
                 /\ result'[t] = ListResult(<<>>)
                 /\ fields' = fields
                 /\ builds' = builds
                 /\ lock' = lock
                 /\ call'[t].rebuilds = 0]_vars

\* a blank id has been answered while the model is uninitialized
BlankIdOnUninitializedModel ==
    \E t \in Threads :
        /\ pc[t] = "done"
        /\ call[t].op = "get_recommendations"
        /\ Strip(call[t].innovation_id) = ""
        /\ call[t].absent
        /\ ~is_initialized
        /\ result[t] = ListResult(<<>>)

\* C13: on a store with fewer than 2 records that have a non-empty
\* normalized text and with no earlier snapshot, no rebuild gets past its
\* body, the model stays uninitialized with no object set, and every call
\* that has returned has returned the empty list (get_recommendations,
\* search_innovations), the status not_initialized (get_model_stats) or False
\* (initialize_model, force_refresh)
InsufficientDataNeverBuilds ==
    /\ ~is_initialized
    /\ df = NoObject /\ tfidf = NoObject /\ cosine_sim = NoObject
    /\ \A t \in Threads :
          /\ pc[t] \in {"idle", "done", "im_time", "im_check", "im_lock", "im_body"}
          /\ pc[t] = "done" =>
                CASE call[t].op \in {"get_recommendations", "search_innovations"} ->
                        result[t] = ListResult(<<>>)
                  [] call[t].op = "get_model_stats" ->
                        result[t].kind = "stats" /\ result[t].status = "not_initialized"
                  [] OTHER -> result[t] = BoolResult(FALSE)

\* on such a store a get_recommendations call for a known id has run a
\* rebuild of its own, after another rebuild had failed, and returned []
RecommendOnInsufficientData ==
    \E t \in Threads :
        /\ pc[t] = "done"
        /\ call[t].op = "get_recommendations"
        /\ call[t].innovation_id = "A"
        /\ call[t].rebuilds = 1
        /\ builds = 3
        /\ ~is_initialized
        /\ result[t] = ListResult(<<>>)

\* thread t has returned from get_recommendations('A', top_n=2) with the
\* default min_similarity, answered from a snapshot of the catalog A, B, C
ScenarioAnswered(t) ==
    /\ pc[t] = "done"
    /\ call[t].op = "get_recommendations"
    /\ call[t].innovation_id = "A"
    /\ call[t].top_n = 2
    /\ call[t].min_similarity = OnePercent
    /\ call[t].rebuilds = call[t].commits
    /\ is_initialized
    /\ Catalogs[df.k] = CatalogABC

\* C14, as claimed: on the catalog A, B, C get_recommendations('A', top_n=2)
\* returns B and C, B before C with a strictly greater score, both scores at
\* least min_similarity
ScenarioReturnsBThenC ==
    \A t \in Threads :
        ScenarioAnswered(t) =>
            /\ Len(result[t].value) = 2
            /\ result[t].value[1].id = "B"
            /\ result[t].value[2].id = "C"
            /\ result[t].value[1].similarity_score > result[t].value[2].similarity_score
            /\ result[t].value[2].similarity_score >= Round4(OnePercent)

\* C14, amended: on the catalog A, B, C get_recommendations('A', top_n=2)
\* returns B alone, with the score 1.0; C, whose similarity to A is 0, is
\* below min_similarity and is not returned
ScenarioReturnsOnlyB ==
    \A t \in Threads :
        ScenarioAnswered(t) =>
            result[t] = ListResult(<<[id |-> "B", similarity_score |-> Decimals]>>)

\* the scenario call has been answered from a fresh snapshot of A, B, C
ScenarioAnsweredFromCache ==
    \E t \in Threads :
        /\ ScenarioAnswered(t)
        /\ call[t].expired = "no"
        /\ result[t].kind = "list" /\ result[t].value # <<>>

\* C15: the result of search_innovations(query, top_n) has at most top_n
\* records, each with a score above 0.01, in non-increasing order of score
SearchResultBounds ==
    \A t \in Threads :
        (pc[t] = "done" /\ call[t].op = "search_innovations" /\ result[t].kind = "list")
            => /\ Len(result[t].value) <= call[t].top_n
               /\ \A n \in DOMAIN result[t].value :
                     result[t].value[n].similarity_score > Round4(OnePercent)
               /\ \A n \in 1..(Len(result[t].value) - 1) :
                     result[t].value[n].similarity_score
                         >= result[t].value[n + 1].similarity_score

\* C16: the cosine_sim of every committed snapshot is symmetric and has 1.0
\* on its diagonal, for every retained record
SimilarityMatrixShape ==
    cosine_sim # NoObject =>
        \A i, j \in DOMAIN Matrix(cosine_sim) :
            /\ Matrix(cosine_sim)[i][j] = Matrix(cosine_sim)[j][i]
            /\ Matrix(cosine_sim)[i][i] = ScoreScale

\* the tokens of a text preprocess_text returned
OutputTokens(r) == SplitWords(r.value, <<>>)

\* C17: every token of the text preprocess_text returns has at least 2
\* characters, none of them a digit or a punctuation character, and is not
\* a stopword
NormalizerOutputClean ==
    \A t \in Threads :
        result[t].kind = "text" =>
            \A n \in DOMAIN OutputTokens(result[t]) :
                /\ Len(OutputTokens(result[t])[n]) >= 2
                /\ \A i \in DOMAIN OutputTokens(result[t])[n] :
                      /\ OutputTokens(result[t])[n][i] \notin Digits
                      /\ ~IsPunctuation(OutputTokens(result[t])[n][i])
                /\ Word(OutputTokens(result[t])[n]) \notin StopWords

\* C18: preprocess_text called on a text it returned, with the same stopword
\* set and stemmer, returns that text
NormalizerIdempotent ==
    [][\A t \in Threads :
          (/\ result[t].kind = "text"
           /\ call'[t].op = "preprocess_text"
           /\ call'[t].text = result[t].value
           /\ call'[t].raises = call[t].raises)
              => result'[t].value = result[t].value]_vars

\* C19: a non-forced call of initialize_model that has acquired the lock
\* while the snapshot is initialized and younger than cache_ttl by the time
\* the call read returns without running a rebuild
RecheckInsideLock ==
    [][\A t \in Threads :
          (/\ pc[t] = "im_body" /\ pc'[t] # "im_body"
           /\ ~loc[t].force_refresh
           /\ is_initialized
           /\ (loc[t].current_time - last_update) < cache_ttl)
              => /\ builds' = builds
                 /\ fields' = fields]_vars

\* C20: a search_innovations or get_model_stats call is never inside
\* initialize_model, where alone the lock is waited for and held; a
\* get_recommendations call that found the model initialized (line 373) and
\* not older than cache_ttl (line 380) is never there either and runs no
\* rebuild
ReadersNeverWait ==
    \A t \in Threads :
        /\ call[t].op \in {"search_innovations", "get_model_stats"}
              => (pc[t] \notin InInitialize /\ lock # t)
        /\ (call[t].op = "get_recommendations" /\ ~call[t].absent /\ call[t].expired = "no")
              => (pc[t] \notin InInitialize /\ lock # t /\ call[t].rebuilds = 0)
        /\ lock = t <=> pc[t] \in RebuildBody

\* a get_recommendations call on a fresh snapshot has been answered while
\* another thread holds the lock for a rebuild it has not yet run
ReaderAnsweredDuringRebuild ==
    /\ pc[1] = "done"
    /\ call[1].op = "get_recommendations"
    /\ ~call[1].absent
    /\ call[1].expired = "no"
    /\ result[1].kind = "list" /\ result[1].value # <<>>
    /\ \E u \in Threads \ {1} : lock = u /\ pc[u] = "im_body"

\* the pairs (row, score) of the records other than row idx whose score in
\* row is at least min_similarity, by descending score, equal scores in the
\* order of the rows
ReferencePairs(row, idx, min_similarity) ==
    SortedByScore(SelectSeq(Enumerate(row),
                            LAMBDA p : p[1] # idx /\ p[2] >= min_similarity))

\* the first top_n of the reference pairs
ReferenceTop(pairs, top_n) == SubSeq(pairs, 1, Min2(top_n, Len(pairs)))

\* the records of the pairs
ReferenceRecords(pairs, rows) ==
    [n \in DOMAIN pairs |-> [id |-> rows[pairs[n][1]].id,
                              similarity_score |-> Round4(pairs[n][2])]]

\* the reference answer to the call of thread t on the snapshot in place
Reference(t) ==
    ReferenceTop(ReferencePairs(Matrix(cosine_sim)[FirstIndex(Rows(df), call[t].innovation_id)],
                                FirstIndex(Rows(df), call[t].innovation_id),
                                call[t].min_similarity),
                 call[t].top_n)

\* thread t has returned from get_recommendations for an id of the snapshot
\* in place, answered from that snapshot on the serial path, and every record
\* of the reference answer can be materialized
AnsweredFromSnapshot(t) ==
    /\ pc[t] = "done"
    /\ call[t].op = "get_recommendations"
    /\ call[t].rebuilds = call[t].commits
    /\ call[t].top_n <= PoolThreshold
    /\ is_initialized
    /\ FirstIndex(Rows(df), call[t].innovation_id) # 0
    /\ \A n \in DOMAIN Reference(t) : ~Rows(df)[Reference(t)[n][1]].bad

\* C21: get_recommendations returns the first top_n of the records other
\* than the queried one whose similarity to it is at least min_similarity,
\* by descending similarity, ties in the order of the rows
RecommendEqualsReference ==
    \A t \in Threads :
        AnsweredFromSnapshot(t) =>
            result[t] = ListResult(ReferenceRecords(Reference(t), Rows(df)))

\* C22: on the pool path a call that has collected its futures, one of them
\* timed out with its task still running, can return without that task
\* ever finishing
StuckTaskDoesNotBlock ==
    \A t \in Threads :
        (pc[t] = "gr_shutdown" /\ loc[t].running > 0) => ENABLED gr_shutdown(t)

\* the tokens the stemmer is given, each stemmed but those on which the
\* stemmer raises, which are left as they are
StemmedPerToken(tokens, raises) ==
    [i \in DOMAIN tokens |-> IF Word(tokens[i]) \in raises THEN tokens[i]
                              ELSE SastrawiStem(tokens[i])]

\* C23: the text preprocess_text returns when the stemmer fails on some
\* tokens is made of those tokens unstemmed and of every other token stemmed
PerTokenStemmerFallback ==
    \A t \in Threads :
        (result[t].kind = "text" /\ call[t].raises # {}) =>
            result[t].value
                = JoinWords(DropShort(StemmedPerToken(KeptTokens(CleanText(call[t].text)),
                                                      call[t].raises)))

\* the positions between the first and the last assignment of a commit
MidCommit == {"im_tfidf", "im_sim", "im_stamp", "im_flag"}

\* rows, vectorizer and matrix fit together: the matrix is square with one
\* row per row of rows, at least 2, entry (i, j) is the similarity of the
\* texts of rows i and j in the vector space of the vectorizer, and every
\* row has a non-blank id and a non-empty processed text
WellFormedSnapshot(rows, vec, matrix) ==
    /\ Len(rows) >= 2
    /\ Len(matrix) = Len(rows)
    /\ \A i \in DOMAIN matrix : Len(matrix[i]) = Len(rows)
    /\ vec.ok
    /\ \A i, j \in DOMAIN rows :
          matrix[i][j] = Cosine(Transform(vec, rows[i].processed_text),
                                Transform(vec, rows[j].processed_text))
    /\ \A i \in DOMAIN rows :
          /\ Strip(rows[i].id) # ""
          /\ rows[i].processed_text # <<>>

\* for every catalog, whether what a rebuild makes of it is well-formed
WellFormedRebuilt ==
    Array([k \in DOMAIN Catalogs |->
              Rebuilt[k].ok => WellFormedSnapshot(Rebuilt[k].df, Rebuilt[k].tfidf,
                                                  Rebuilt[k].cosine_sim)])

\* C24: whenever is_initialized holds and no thread is between the
\* assignments of a commit, df, tfidf and cosine_sim are set, were made by
\* one rebuild, and fit together as a well-formed snapshot
CommittedSnapshotWellFormed ==
    (is_initialized /\ \A t \in Threads : pc[t] \notin MidCommit) =>
        /\ df # NoObject
        /\ tfidf = df
        /\ cosine_sim = df
        /\ WellFormedRebuilt[df.k]

\* a rebuild has replaced the snapshot of the constructor by one of the
\* catalog from which records are dropped, and no call is under way
SecondSnapshotInPlace ==
    /\ is_initialized
    /\ df.gen > 1
    /\ Catalogs[df.k] = CatalogBig
    /\ lock = 0
    /\ \A t \in Threads : pc[t] \in {"idle", "done"}

\* C25: last_update never decreases
TimestampMonotonic == [][last_update' >= last_update]_vars

\* C26: a get_recommendations call enters the rebuild body at most once
AtMostOneRebuildPerCall ==
    \A t \in Threads :
        call[t].op = "get_recommendations" => call[t].rebuilds <= 1

\* for every catalog, whether what a rebuild makes of it has at least 3 rows
ThreeRowsRebuilt ==
    Array([k \in DOMAIN Catalogs |-> Rebuilt[k].ok => Len(Rebuilt[k].df) >= 3])

\* C27: on a store whose catalogs all leave exactly 2 rows, no rebuild gets
\* past its body and no step changes df, tfidf, cosine_sim, last_update or
\* is_initialized; and a rebuild of any catalog of the store succeeds only
\* with at least 3 rows, as has the snapshot in place
TwoRowCorpusNeverBuilds ==
    [][/\ fields' = fields
       /\ \A t \in Threads : pc'[t] \notin {"im_df", "im_unlock"} \cup MidCommit
       /\ \A k \in DOMAIN Catalogs : ThreeRowsRebuilt[k]
       /\ df # NoObject => Len(Rows(df)) >= 3]_vars

\* on such a store two rebuilds have been attempted, the second one by a
\* non-forced call for an expired snapshot, which is still in place
TwoRowRebuildsFailed ==
    \E t \in Threads :
        /\ pc[t] = "done"
        /\ call[t].op = "initialize_model"
        /\ call[t].rebuilds = 1
        /\ result[t] = BoolResult(FALSE)
        /\ builds = 3
        /\ is_initialized
        /\ df.gen = 1

=============================================================================
